---- MODULE Spec2Model ----
(***************************************************************************)
(* Model of __ieee754_logl (sysdeps/ieee754/ldbl-128/e_logl.c): the        *)
(* natural logarithm of an IEEE binary128 value.                           *)
(*                                                                         *)
(* A binary128 object (ieee854_long_double_shape_type) is modelled by its  *)
(* bits: [neg, w0, l], where neg is bit 31 of parts32.w0, w0 the other 31  *)
(* bits of parts32.w0 (15-bit biased exponent * 65536 + top 16 mantissa    *)
(* bits) and l the remaining 96 mantissa bits (parts32.w1..w3) as six      *)
(* 16-bit limbs, most significant first.  Integers of the model stay       *)
(* below 2^31.                                                             *)
(***************************************************************************)
EXTENDS Integers, Sequences, FiniteSets

VARIABLES x, pc, m, k, e, u, t, z, y, flags, result, tier

vars == <<x, pc, m, k, e, u, t, z, y, flags, result, tier>>

(* ------------------------------ bounds --------------------------------- *)
\* biased exponents sampled: within ExpSpan of 0, of the bias and of the top
ExpSpan == 1
\* top mantissa halves sampled: within MantNear of a multiple of 256
MantNear == 1
\* powers of two by which an input is rescaled in the scaling law
MaxScale == 2

(* --------------------------- format constants -------------------------- *)
Two16 == 65536
ExpBias == 16383
ExpMax == 32767
ZeroLimbs == <<0, 0, 0, 0, 0, 0>>
OnesLimbs == <<65535, 65535, 65535, 65535, 65535, 65535>>

Bits(n, w, l) == [neg |-> n, w0 |-> w, l |-> l]
ExpField(v) == v.w0 \div Two16
Top16(v) == v.w0 % Two16
NoBits == Bits(0, 0, ZeroLimbs)

(* lexicographic order of two limb tuples *)
LimbsLt(a, b) == \E i \in 1..6 : a[i] < b[i] /\ \A j \in 1..(i-1) : a[j] = b[j]

(* a <= b for two non-negative, non-NaN binary128 values: the order of    *)
(* the values is the order of their bit patterns                          *)
FLe(a, b) == \/ a.w0 < b.w0
             \/ a.w0 = b.w0 /\ (a.l = b.l \/ LimbsLt(a.l, b.l))

(* IEEE class of a bit pattern *)
Class(v) ==
  IF ExpField(v) = ExpMax
    THEN IF Top16(v) = 0 /\ v.l = ZeroLimbs THEN "inf"
         ELSE IF Top16(v) >= 32768 THEN "qnan" ELSE "snan"
    ELSE IF v.w0 = 0 /\ v.l = ZeroLimbs THEN "zero" ELSE "fin"

(* ------------------- IEEE arithmetic on special values ------------------ *)
(* an arithmetic outcome: class and sign of the value, exceptions raised   *)
(* (the sign of a NaN outcome is left out: it is kept as 0)                *)
Out(c, n, f) == [cls |-> c, neg |-> n, exc |-> f]

(* a - a *)
FSubSelf(a) ==
  CASE a.cls = "qnan" -> Out("qnan", 0, a.exc)
    [] a.cls = "snan" -> Out("qnan", 0, a.exc \cup {"invalid"})
    [] a.cls = "inf"  -> Out("qnan", 0, a.exc \cup {"invalid"})
    [] OTHER          -> Out("zero", 0, a.exc)

(* a + a *)
FAddSelf(a) ==
  CASE a.cls = "qnan" -> Out("qnan", 0, a.exc)
    [] a.cls = "snan" -> Out("qnan", 0, a.exc \cup {"invalid"})
    [] OTHER          -> Out(a.cls, a.neg, a.exc)

(* a / b, for b a table entry (zero or finite nonzero, never NaN or inf) *)
FDiv(a, b) ==
  LET sg == (a.neg + b.neg) % 2
  IN CASE a.cls = "qnan" -> Out("qnan", 0, a.exc)
       [] a.cls = "snan" -> Out("qnan", 0, a.exc \cup {"invalid"})
       [] a.cls = "zero" /\ b.cls = "zero" -> Out("qnan", 0, a.exc \cup {"invalid"})
       [] a.cls = "zero" /\ b.cls # "zero" -> Out("zero", sg, a.exc)
       [] a.cls = "inf" -> Out("inf", sg, a.exc)
       [] a.cls = "fin" /\ b.cls = "zero" -> Out("inf", sg, a.exc \cup {"divbyzero"})
       [] OTHER -> Out("fin", sg, a.exc)

Arg(v) == Out(Class(v), v.neg, {})


(* ------------------------- decoding a bit pattern ---------------------- *)
(* significand with its implicit bit, in units of 2^-16; unbiased exponent *)
Sig17(v) == IF ExpField(v) = 0 THEN Top16(v) ELSE Two16 + Top16(v)
Unb(v) == IF ExpField(v) = 0 THEN 1 - ExpBias ELSE ExpField(v) - ExpBias

(* The 113-bit significand <<h, l>> as eight 16-bit limbs, most           *)
(* significant first (the first limb holds the implicit bit alone).       *)
Limbs8(s) == [i \in 1..8 |-> IF i = 1 THEN s[1] \div Two16
                             ELSE IF i = 2 THEN s[1] % Two16 ELSE s[2][i-2]]
BitLen(v) == CHOOSE b \in 0..16 : 2^b > v /\ (b = 0 \/ 2^(b-1) <= v)

(* s shifted left by n bits, 0 <= n <= 112 (bits shifted past bit 112 are *)
(* dropped: none are when n is at most NormShift(s))                      *)
ShlN(s, n) ==
  LET a == Limbs8(s)
      q == n \div 16
      r == n % 16
      at(i) == IF i <= 8 THEN a[i] ELSE 0
      b == [i \in 1..8 |-> ((at(i + q) * 2^r) % Two16) + (at(i + q + 1) \div 2^(16 - r))]
  IN <<b[1] * Two16 + b[2], [i \in 1..6 |-> b[i + 2]]>>

(* number of left shifts that bring the leading one of s to bit 112 *)
NormShift(s) ==
  LET a == Limbs8(s)
  IN IF \A i \in 1..8 : a[i] = 0 THEN 0
     ELSE LET i == CHOOSE j \in 1..8 : a[j] # 0 /\ \A h \in 1..(j-1) : a[h] = 0
          IN 112 - ((8 - i) * 16 + BitLen(a[i]) - 1)

(* frexpl: for finite nonzero v the fraction in [0.5, 1) with the         *)
(* mantissa of v (normalised when v is subnormal) and the exponent e with *)
(* v = fraction * 2^e; any other v is returned as it is, with e = 0       *)
Frexpl(v) ==
  IF Class(v) # "fin" THEN [val |-> v, exp |-> 0]
  ELSE LET s == NormShift(<<Sig17(v), v.l>>)
           n == ShlN(<<Sig17(v), v.l>>, s)
       IN [val |-> Bits(v.neg, (ExpBias - 1) * Two16 + (n[1] - Two16), n[2]),
           exp |-> Unb(v) + 1 - s]

(* ------------------------------ constants ------------------------------ *)
(* logtbl[92], indexed 0..91; entry i is ln(t) - (t-1) at                  *)
(* t = 0.5 + (i+26)/128; Grid128(i) is that t in units of 1/128            *)
LogtblLen == 92
Grid128(i) == 64 + (i + 26)
(* ZERO is logtbl[38], the one entry that is 0.0 *)
ZeroIndex == 38
LogtblEntry(i) == IF i = 38 THEN Out("zero", 0, {}) ELSE Out("fin", 1, {})
ZERO == LogtblEntry(ZeroIndex)
NegHalf_Positive == Out("fin", 0, {})
(* L(-0.5) *)
NegHalf == Out("fin", 1, {})

(* 1.0, 1.0078125 and 0.9921875 as bit patterns *)
OneBits == Bits(0, ExpBias * Two16, ZeroLimbs)
BandHi_Wide == Bits(0, ExpBias * Two16 + 33280, ZeroLimbs)
BandHi == Bits(0, ExpBias * Two16 + 512, ZeroLimbs)
BandLo == Bits(0, (ExpBias - 1) * Two16 + 64512, ZeroLimbs)

(* --------------------------- special cases ----------------------------- *)
(* m & 0x7fffffff *)
MaskSign(mm) == mm.low
IsZero_TopWordOnly(kk, v) == kk = 0
(* (k | w1 | w2 | w3) == 0 *)
IsZero(kk, v) == kk = 0 /\ v.l = ZeroLimbs
(* m & 0x80000000 *)
SignSet(mm) == mm.msb = 1
IsInfNaN_Strict(kk) == kk > ExpMax * Two16
(* k >= 0x7fff0000 *)
IsInfNaN(kk) == kk >= ExpMax * Two16

(* L(-0.5) / ZERO *)
LogZero == FDiv(NegHalf, ZERO)
LogNegative_NoSubtract(v) == FDiv(Arg(v), ZERO)
(* (x - x) / ZERO *)
LogNegative(v) == FDiv(FSubSelf(Arg(v)), ZERO)
(* x + x *)
LogInfNaN(v) == FAddSelf(Arg(v))

(* --------------------------- range reduction --------------------------- *)
(* m = u.parts32.w0 & 0xffff; m |= 0x10000 *)
SigTop(uu) == Top16(uu) + Two16
(* 0x16800 *)
TierThreshold == 92160
TierLowK_Shift8(mm) == (mm - 65280) \div 256
(* k = (m - 0xff00) >> 9 *)
TierLowK(mm) == (mm - 65280) \div 512
(* t.parts32.w0 = 0x3fff0000 + (k << 9), other words 0 *)
TierLowT(kk) == Bits(0, ExpBias * Two16 + kk * 512, ZeroLimbs)
TierLowU_NotDoubled(uu) == uu
(* u.parts32.w0 += 0x10000 *)
TierLowU(uu) == [uu EXCEPT !.w0 = @ + Two16]
(* e -= 1 *)
TierLowE(ee) == ee - 1
(* k += 64 *)
TierLowIdx(kk) == kk + 64
TierHighK_Truncated(mm) == (mm - Two16) \div 1024
(* k = (m - 0xfe00) >> 10 *)
TierHighK(mm) == (mm - 65024) \div 1024
(* t.parts32.w0 = 0x3ffe0000 + (k << 10), other words 0 *)
TierHighT(kk) == Bits(0, (ExpBias - 1) * Two16 + kk * 1024, ZeroLimbs)

InBand_StrictUpper(v) == v # BandHi /\ FLe(v, BandHi) /\ FLe(BandLo, v)
(* (x <= 1.0078125) && (x >= 0.9921875) *)
InBand(v) == FLe(v, BandHi) /\ FLe(BandLo, v)
(* x == 1 *)
IsOne(v) == v = OneBits
(* k = 64 on the band path *)
BandK == 64
(* e = 0 on the band path *)
BandE == 0

(* The residual z is kept as the exact rational (D + f / 2^96) / T that    *)
(* the code's expression denotes before its one rounding: an integer D, a  *)
(* fraction f in [0,1) held as 96 bits, and a positive integer T.          *)
NoZ == [D |-> 0, f |-> ZeroLimbs, T |-> 0]
(* z = x - 1, in units of the last of the top 17 bits of x (0.5 <= x < 2) *)
ZBand(v) == LET one == Two16 * 2^(0 - Unb(v))
            IN [D |-> Sig17(v) - one, f |-> v.l, T |-> one]
(* z = (u.value - t.value) / t.value, in units of the last of the top 17  *)
(* bits of u; t is a multiple of that unit (its exponent is not below u's) *)
ZGeneral(uu, tt) == LET tu == Sig17(tt) * 2^(Unb(tt) - Unb(uu))
                    IN [D |-> Sig17(uu) - tu, f |-> uu.l, T |-> tu]

(* t.value as a multiple of 2^-17 (t is 0.5 or above) *)
T17(tt) == Sig17(tt) * 2^(Unb(tt) + 1)

(* ---------------------------- accumulation ----------------------------- *)
(* logtbl[k-26] *)
TableIndex(kk) == kk - 26
Term(o, nm, n) == [op |-> o, term |-> nm, n |-> n]
(* y = (...(l15 * z + l14) * z ... + l3) * z * w *)
TermSeries == Term("=", "series", 0)
(* y -= 0.5 * w *)
TermHalfW == Term("-", "0.5*w", 0)
(* y += e * ln2b *)
TermLn2b(ee) == Term("+", "e*ln2b", ee)
(* y += z *)
TermZ == Term("+", "z", 0)
(* y += logtbl[k-26] *)
TermTable(kk) == Term("+", "logtbl", TableIndex(kk))
(* y += (t.value - 1), in units of 2^-17 *)
TermTm1(tt) == Term("+", "t-1", T17(tt) - 2 * Two16)
(* y += e * ln2a *)
TermLn2a(ee) == Term("+", "e*ln2a", ee)


(* the whole reduction of a positive finite v (frexpl to the band test) *)
Reduce(v) ==
  LET f == Frexpl(v)
      mm == SigTop(f.val)
      low == mm < TierThreshold
      kt == IF low THEN TierLowK(mm) ELSE TierHighK(mm)
      tt == IF low THEN TierLowT(kt) ELSE TierHighT(kt)
      uu == IF low THEN TierLowU(f.val) ELSE f.val
      ee == IF low THEN TierLowE(f.exp) ELSE f.exp
      kk == IF low THEN TierLowIdx(kt) ELSE kt
      tr == IF low THEN "low" ELSE "high"
  IN IF InBand(v)
       THEN [tier |-> tr, k |-> BandK, t |-> OneBits, e |-> BandE, u |-> uu,
             z |-> ZBand(v)]
       ELSE [tier |-> tr, k |-> kk, t |-> tt, e |-> ee, u |-> uu,
             z |-> ZGeneral(uu, tt)]

(* ------------------------------ inputs --------------------------------- *)
ExpSamples == (0..ExpSpan) \cup ((ExpBias - 1 - ExpSpan)..(ExpBias + ExpSpan))
              \cup ((ExpMax - ExpSpan)..ExpMax)
HiSamples == UNION {{256 * q + r, 256 * q + 255 - r} :
                      <<q, r>> \in (0..255) \X (0..(MantNear - 1))}
LoSamples == {ZeroLimbs, <<0, 0, 0, 0, 0, 1>>, <<32768, 0, 0, 0, 0, 0>>, OnesLimbs}
Inputs == {Bits(n, ex * Two16 + h, l) :
             n \in 0..1, ex \in ExpSamples, h \in HiSamples, l \in LoSamples}

NoResult == [cls |-> "none", neg |-> 0, via |-> "none"]

Init ==
  /\ x \in Inputs
  /\ pc = "start"
  /\ m = [msb |-> 0, low |-> 0]
  /\ k = 0
  /\ e = 0
  /\ u = NoBits
  /\ t = NoBits
  /\ z = NoZ
  /\ y = <<>>
  /\ flags = {}
  /\ result = NoResult
  /\ tier = "none"

(* ------------------------------ actions -------------------------------- *)
(* u.value = x; m = u.parts32.w0; k = m & 0x7fffffff *)
LoadWords ==
  /\ pc = "start"
  /\ u' = x
  /\ m' = [msb |-> x.neg, low |-> x.w0]
  /\ k' = MaskSign([msb |-> x.neg, low |-> x.w0])
  /\ pc' = "classify"
  /\ UNCHANGED <<x, e, t, z, y, flags, result, tier>>

(* a return statement: the value returned, the exceptions its expression *)
(* raised, and which return statement it was                            *)
Finish(r, via) ==
  /\ result' = [cls |-> r.cls, neg |-> r.neg, via |-> via]
  /\ flags' = flags \cup r.exc
  /\ pc' = "done"

(* log(0) = -infinity *)
RetZero ==
  /\ pc = "classify"
  /\ IsZero(k, u)
  /\ Finish(LogZero, "zero")
  /\ UNCHANGED <<x, m, k, e, u, t, z, y, tier>>

(* log(x < 0) = NaN *)
RetNegative ==
  /\ pc = "classify"
  /\ ~IsZero(k, u)
  /\ SignSet(m)
  /\ Finish(LogNegative(x), "negative")
  /\ UNCHANGED <<x, m, k, e, u, t, z, y, tier>>

(* log(infinity or NaN) *)
RetInfNaN ==
  /\ pc = "classify"
  /\ ~IsZero(k, u)
  /\ ~SignSet(m)
  /\ IsInfNaN(k)
  /\ Finish(LogInfNaN(x), "infnan")
  /\ UNCHANGED <<x, m, k, e, u, t, z, y, tier>>

(* u.value = __frexpl(x, &e); m = u.parts32.w0 & 0xffff; m |= 0x10000 *)
ExtractExponent ==
  /\ pc = "classify"
  /\ ~IsZero(k, u)
  /\ ~SignSet(m)
  /\ ~IsInfNaN(k)
  /\ u' = Frexpl(x).val
  /\ e' = Frexpl(x).exp
  /\ m' = [msb |-> 0, low |-> SigTop(Frexpl(x).val)]
  /\ pc' = "tier"
  /\ UNCHANGED <<x, k, t, z, y, flags, result, tier>>

(* if (m < 0x16800) { ... } *)
TierLow ==
  /\ pc = "tier"
  /\ m.low < TierThreshold
  /\ t' = TierLowT(TierLowK(m.low))
  /\ u' = TierLowU(u)
  /\ e' = TierLowE(e)
  /\ k' = TierLowIdx(TierLowK(m.low))
  /\ tier' = "low"
  /\ pc' = "band"
  /\ UNCHANGED <<x, m, z, y, flags, result>>

(* else { ... } *)
TierHigh ==
  /\ pc = "tier"
  /\ ~(m.low < TierThreshold)
  /\ k' = TierHighK(m.low)
  /\ t' = TierHighT(TierHighK(m.low))
  /\ tier' = "high"
  /\ pc' = "band"
  /\ UNCHANGED <<x, m, e, u, z, y, flags, result>>

(* if (x == 1) return 0; *)
RetOne ==
  /\ pc = "band"
  /\ InBand(x)
  /\ IsOne(x)
  /\ Finish(Out("zero", 0, {}), "one")
  /\ UNCHANGED <<x, m, k, e, u, t, z, y, tier>>

(* z = x - 1; k = 64; t.value = 1; e = 0; *)
BandOverride ==
  /\ pc = "band"
  /\ InBand(x)
  /\ ~IsOne(x)
  /\ z' = ZBand(x)
  /\ k' = BandK
  /\ t' = OneBits
  /\ e' = BandE
  /\ pc' = "series"
  /\ UNCHANGED <<x, m, u, y, flags, result, tier>>

(* z = (u.value - t.value) / t.value; *)
GeneralPath ==
  /\ pc = "band"
  /\ ~InBand(x)
  /\ z' = ZGeneral(u, t)
  /\ pc' = "series"
  /\ UNCHANGED <<x, m, k, e, u, t, y, flags, result, tier>>

Accumulate(from, term, to) ==
  /\ pc = from
  /\ y' = Append(y, term)
  /\ pc' = to
  /\ UNCHANGED <<x, m, k, e, u, t, z, flags, result, tier>>

(* w = z * z; y = (...) * z * w; *)
Series ==
  /\ pc = "series"
  /\ y' = <<TermSeries>>
  /\ pc' = "sub_halfw"
  /\ UNCHANGED <<x, m, k, e, u, t, z, flags, result, tier>>

AddLn2b_HighPartFirst == Accumulate("add_ln2b", TermLn2a(e), "add_z")
SubHalfW == Accumulate("sub_halfw", TermHalfW, "add_ln2b")
AddLn2b == Accumulate("add_ln2b", TermLn2b(e), "add_z")
AddZ == Accumulate("add_z", TermZ, "add_table")
AddTable == Accumulate("add_table", TermTable(k), "add_tm1")
AddTm1 == Accumulate("add_tm1", TermTm1(t), "add_ln2a")
AddLn2a == Accumulate("add_ln2a", TermLn2a(e), "return")

(* return y; *)
Return ==
  /\ pc = "return"
  /\ Finish(Out("sum", 0, {}), "sum")
  /\ UNCHANGED <<x, m, k, e, u, t, z, y, tier>>

Next ==
  \/ LoadWords
  \/ RetZero
  \/ RetNegative
  \/ RetInfNaN
  \/ ExtractExponent
  \/ TierLow
  \/ TierHigh
  \/ RetOne
  \/ BandOverride
  \/ GeneralPath
  \/ Series
  \/ SubHalfW
  \/ AddLn2b
  \/ AddZ
  \/ AddTable
  \/ AddTm1
  \/ AddLn2a
  \/ Return

Spec == Init /\ [][Next]_vars

TypeOK ==
  /\ pc \in {"start", "classify", "tier", "band", "series", "sub_halfw", "add_ln2b",
             "add_z", "add_table", "add_tm1", "add_ln2a", "return", "done"}
  /\ tier \in {"none", "low", "high"}
  /\ flags \subseteq {"invalid", "divbyzero"}

(* the stepwise reduction and Reduce agree *)
ReduceAgrees ==
  pc = "series" =>
    Reduce(x) = [tier |-> tier, k |-> k, t |-> t, e |-> e, u |-> u, z |-> z]

(* ------------------------------ properties ----------------------------- *)
IsNaN(v) == Class(v) \in {"qnan", "snan"}
Reduced == pc \in {"series", "sub_halfw", "add_ln2b", "add_z", "add_table",
                   "add_tm1", "add_ln2a", "return"}
           \/ (pc = "done" /\ result.via = "sum")
NothingReduced == tier = "none" /\ u = x /\ e = 0 /\ t = NoBits /\ z = NoZ /\ y = <<>>

(* 127/128 <= v <= 129/128, read off the value of a positive finite v *)
ValueInBand(v) ==
  \/ Unb(v) = 0 /\ (Sig17(v) < Two16 + 512 \/ (Sig17(v) = Two16 + 512 /\ v.l = ZeroLimbs))
  \/ Unb(v) = 0 - 1 /\ Sig17(v) >= Two16 + 64512

(* C1: every special input gets the value of the spec's table: +0 and -0  *)
(* give -infinity, a negative finite nonzero value gives NaN, +infinity   *)
(* gives +infinity, -infinity gives NaN, every NaN gives NaN, and 1.0     *)
(* gives +0.0 returned before the series and the accumulation run.        *)
C1_SpecialValues ==
  pc = "done" =>
    /\ Class(x) = "zero" => result.cls = "inf" /\ result.neg = 1
    /\ Class(x) = "fin" /\ x.neg = 1 => result.cls = "qnan"
    /\ Class(x) = "inf" /\ x.neg = 0 => result.cls = "inf" /\ result.neg = 0
    /\ Class(x) = "inf" /\ x.neg = 1 => result.cls = "qnan"
    /\ IsNaN(x) => result.cls = "qnan"
    /\ x = Bits(0, ExpBias * Two16, ZeroLimbs) =>
         result.cls = "zero" /\ result.neg = 0 /\ y = <<>> /\ z = NoZ
C1_Witness ==
  pc = "done" /\ x.neg = 1 /\ Class(x) = "inf" /\ result.cls = "qnan"

(* C2: an input that is exactly zero returns -0.5 / ZERO, which is        *)
(* -infinity with the divide-by-zero flag raised and the invalid flag     *)
(* not raised, and no range reduction has run.                            *)
C2_ZeroDividesByZero ==
  pc = "done" /\ x.w0 = 0 /\ x.l = ZeroLimbs =>
    /\ result = [cls |-> "inf", neg |-> 1, via |-> "zero"]
    /\ flags = {"divbyzero"}
    /\ NothingReduced
C2_Witness == pc = "done" /\ x.w0 = 0 /\ x.l = ZeroLimbs /\ x.neg = 1
              /\ "divbyzero" \in flags

(* C3 as stated: every input with the sign bit set and a nonzero          *)
(* magnitude returns NaN with the invalid-operation exception signalled.  *)
C3_Original ==
  pc = "done" /\ x.neg = 1 /\ ~(x.w0 = 0 /\ x.l = ZeroLimbs) =>
    result.cls = "qnan" /\ "invalid" \in flags

(* C3 amended: every input with the sign bit set and a nonzero magnitude  *)
(* returns the NaN of (x - x) / 0.0 and never raises divide-by-zero; the  *)
(* invalid-operation exception is signalled when the input is a negative  *)
(* finite value, -infinity or a signalling NaN, and is not signalled when *)
(* the input is a quiet NaN.                                              *)
C3_NegativeGivesNaN ==
  pc = "done" /\ x.neg = 1 /\ ~(x.w0 = 0 /\ x.l = ZeroLimbs) =>
    /\ result.cls = "qnan" /\ result.via = "negative"
    /\ "divbyzero" \notin flags
    /\ "invalid" \in flags <=> Class(x) # "qnan"
    /\ NothingReduced
C3_Witness == pc = "done" /\ x.neg = 1 /\ Class(x) = "qnan" /\ flags = {}
              /\ result.cls = "qnan"

(* C4: a positive nonzero input whose exponent field is at or above the   *)
(* maximum returns x + x (+infinity for +infinity, NaN for a NaN); every  *)
(* other positive nonzero input goes through range reduction and does not *)
(* return through the x + x statement.                                    *)
C4_InfNaNOrReduce ==
  x.neg = 0 /\ ~(x.w0 = 0 /\ x.l = ZeroLimbs) =>
    IF ExpField(x) >= ExpMax
      THEN /\ pc \in {"start", "classify", "done"}
           /\ pc = "done" =>
                /\ result.via = "infnan"
                /\ NothingReduced
                /\ Class(x) = "inf" => result.cls = "inf" /\ result.neg = 0 /\ flags = {}
                /\ IsNaN(x) => result.cls = "qnan"
      ELSE pc = "done" => result.via \in {"one", "sum"} /\ tier \in {"low", "high"}
C4_Witness == pc = "done" /\ x.neg = 0 /\ ExpField(x) = 0 /\ result.via = "sum"
              /\ tier = "low"

(* C5: whenever the reduction has finished, the index k - 26 at which    *)
(* logtbl is read lies in 0..91.                                          *)
C5_TableIndexInRange ==
  Reduced => k - 26 \in 0..(LogtblLen - 1)
C5_Witness == pc = "add_table" /\ tier = "low" /\ k - 26 = 90

(* C6: after the reduction, 2^e * u = x exactly (the significand of u is  *)
(* that of x shifted left by exactly the difference of the exponents,     *)
(* with no bit lost), u lies in [0.703125, 1.40625) on the general path,  *)
(* t is exactly 0.5 + (i + 26)/128 for the index i = k - 26 at which      *)
(* logtbl is read, and z is the exact rational (u - t) / t.               *)
C6_ExactReduction ==
  Reduced =>
    LET d == Unb(x) - (e + Unb(u))
        sx == <<Sig17(x), x.l>>
    IN /\ d >= 0 /\ d <= NormShift(sx)
       /\ ShlN(sx, d) = <<Sig17(u), u.l>>
       /\ ExpField(u) > 0
       /\ ~ValueInBand(x) =>
            /\ FLe(Bits(0, (ExpBias - 1) * Two16 + 26624, ZeroLimbs), u)
            /\ ~FLe(Bits(0, ExpBias * Two16 + 26624, ZeroLimbs), u)
       /\ T17(t) = 1024 * Grid128(k - 26)
       /\ z.T = Sig17(t) * 2^(Unb(t) - Unb(u))
       /\ z.D = Sig17(u) - z.T
       /\ z.f = u.l
C6_Witness == pc = "series" /\ ExpField(x) = 0 /\ Top16(x) = 0 /\ x.l[1] = 32768
              /\ tier = "low" /\ e = 0 - 16399

(* 128 * |rational| <= 1 for the rational (D + f/2^96) / T, T > 0 *)
AbsLe128th(r) ==
  LET top7 == r.f[1] \div 512
      rest == r.f[1] % 512 # 0 \/ \E i \in 2..6 : r.f[i] # 0
  IN IF r.D >= 0
       THEN 128 * r.D + top7 < r.T \/ (128 * r.D + top7 = r.T /\ ~rest)
       ELSE 128 * (0 - r.D) - r.T <= top7

(* C7: the residual handed to the polynomial satisfies |z| <= 1/128; on   *)
(* the general path t is the grid point nearest to u, |u - t| <= 1/256.   *)
C7_ResidualBound ==
  Reduced =>
    /\ z.T > 0 /\ AbsLe128th(z)
    /\ ~ValueInBand(x) =>
         LET half == 2^(8 - Unb(u))
         IN IF z.D >= 0 THEN z.D < half \/ (z.D = half /\ z.f = ZeroLimbs)
            ELSE 0 - z.D <= half
C7_Witness == pc = "series" /\ x = Bits(0, ExpBias * Two16 + 512, ZeroLimbs)
              /\ 128 * z.D = z.T

(* the order in which the partial results are added to y *)
TermOrder == <<"series", "0.5*w", "e*ln2b", "z", "logtbl", "t-1", "e*ln2a">>
StepsDone ==
  CASE pc = "sub_halfw" -> 1 [] pc = "add_ln2b" -> 2 [] pc = "add_z" -> 3
    [] pc = "add_table" -> 4 [] pc = "add_tm1" -> 5 [] pc = "add_ln2a" -> 6
    [] pc = "return" -> 7
    [] pc = "done" /\ result.via = "sum" -> 7
    [] OTHER -> 0

(* C8: the partial results are added in the order series, -0.5*w,        *)
(* e*ln2b, z, logtbl[k-26], t-1, e*ln2a, each once: at every point y     *)
(* holds exactly the first terms of that order, and all seven on return. *)
C8_AccumulationOrder ==
  /\ Len(y) = StepsDone
  /\ \A i \in 1..Len(y) : y[i].term = TermOrder[i]
  /\ \A i \in 1..Len(y) : y[i].op = (IF i = 1 THEN "=" ELSE IF i = 2 THEN "-" ELSE "+")
  /\ Len(y) >= 3 => y[3].n = e
  /\ Len(y) >= 5 => y[5].n = k - 26
  /\ Len(y) >= 7 => y[7].n = e
C8_Witness == pc = "done" /\ result.via = "sum" /\ Len(y) = 7 /\ e # 0

(* C9: in the band [0.9921875, 1.0078125] (1.0 apart) the band test sets  *)
(* k = 64 (table index 38, the zero entry), t = 1, e = 0 and z = x - 1    *)
(* whatever the tier computed, so the table term, t - 1 and both exponent *)
(* terms are added as zero; outside it the tier's k, t and e are kept and *)
(* z = (u - t) / t.                                                       *)
C9_BandStep ==
  pc = "band" /\ pc' = "series" =>
    IF ValueInBand(x)
      THEN /\ k' = 64 /\ t' = Bits(0, ExpBias * Two16, ZeroLimbs) /\ e' = 0
           /\ z'.f = x.l /\ z'.D + z'.T = Sig17(x) /\ z'.T = 2^(16 - Unb(x))
      ELSE /\ k' = k /\ t' = t /\ e' = e
           /\ z' = [D |-> Sig17(u) - Sig17(t) * 2^(Unb(t) - Unb(u)), f |-> u.l,
                    T |-> Sig17(t) * 2^(Unb(t) - Unb(u))]
C9_BandTerms ==
  pc = "done" /\ result.via = "sum" /\ ValueInBand(x) =>
    /\ y[5].n = 38 /\ LogtblEntry(y[5].n).cls = "zero"
    /\ y[6].n = 0 /\ y[3].n = 0 /\ y[7].n = 0
C9_BandOverride == [][C9_BandStep]_vars /\ []C9_BandTerms
C9_Witness == pc = "series" /\ x = Bits(0, (ExpBias - 1) * Two16 + 64512, ZeroLimbs)
              /\ k = 64 /\ tier = "high"

(* x * 2^n for a normal x whose product is normal *)
Scale(v, n) == [v EXCEPT !.w0 = @ + n * Two16]

(* C10: for a normal positive x outside the band and a power of two n     *)
(* with x * 2^n normal and outside the band, reducing x * 2^n gives the   *)
(* same tier, table index, t and z as reducing x and an exponent count    *)
(* larger by exactly n.                                                   *)
C10_ScalingInvariance ==
  pc = "series" /\ ExpField(x) \in 1..(ExpMax - 1) /\ ~ValueInBand(x) =>
    \A n \in (0 - MaxScale)..MaxScale :
      (ExpField(x) + n \in 1..(ExpMax - 1) /\ ~ValueInBand(Scale(x, n))) =>
        LET r == Reduce(Scale(x, n))
        IN /\ r.tier = tier /\ r.k = k /\ r.t = t /\ r.z = z /\ r.u = u
           /\ r.e = e + n
C10_Witness == pc = "series" /\ ExpField(x) = ExpBias + 1 /\ tier = "high" /\ e = 2
               /\ Reduce(Scale(x, 0 - 2)).e = 0
====
